---- MODULE Spec2Model ----
(***************************************************************************)
(* Model of PriorityQueueImpl (src/src/lib.rs): a priority queue of byte   *)
(* payloads kept in a HashMap<Vec<u8>, Vec<u8>>.  A key is the big-endian  *)
(* encoding of a u64 priority; a value ("bucket") is the concatenation of  *)
(* length-prefixed payloads in insertion order.                            *)
(*                                                                         *)
(* Bytes are naturals below 256, byte vectors are sequences of them, and   *)
(* the hash map is a function from the set of its keys to its buckets.     *)
(* The order in which HashMap::keys() yields the keys is not specified,    *)
(* so every scan takes it as a nondeterministic choice.  A panic is a      *)
(* result of the call that leaves the queue as the code left it.           *)
(***************************************************************************)
EXTENDS Integers, Sequences, FiniteSets, Bags

VARIABLES
    hmap,      \* the wrapped HashMap: key bytes -> bucket bytes
    op,        \* the last call: [name, len] (len: length of insert's element)
    ret,       \* what the last call returned: [kind, val]
    pending,   \* the inserted elements not popped yet, in insertion order
    count,     \* inserts: inserts that succeeded, outs: pops that gave a
               \* payload, accepted: the bag of payloads those inserts took,
               \* returned: the bag of payloads those pops gave
    shape,     \* "filling": only inserts so far; "draining": inserts, then
               \* pops; "mixed": an insert came after a pop
    inserted,  \* while not mixed: the inserts that succeeded, in call order
    popped     \* while not mixed: what the pops returned, in call order

vars == <<hmap, op, ret, pending, count, shape, inserted, popped>>

----------------------------------------------------------------------------
(* Bounds of the model and constants of the program *)

\* number of inserts that succeed in a run
MaxInserts == 3

\* a priority that takes more than one byte.  Priorities are u64 in the code,
\* which only encodes, decodes and compares them; the ones tried here are
\* small enough for TLC's integers.
LargePriority == 25000

\* largest value of the u8 that holds a payload's length
U8Max == 255

\* a u8 takes the values 0 .. ByteBase - 1
ByteBase == 256

\* length of an encoded key, [u8; 8]
KeyLen == 8

Priorities == {0, 1, LargePriority}

\* the payload of n bytes 1, 2, 3, ... (each byte taken modulo ByteBase)
Ramp(n) == [i \in 1 .. n |-> i % ByteBase]

\* payloads insert accepts: the empty one and the longest one
Payloads == {<<>>, Ramp(U8Max)}

\* payloads insert rejects: one byte too long, and longer
LongPayloads == {Ramp(U8Max + 1), Ramp(U8Max + 2)}

----------------------------------------------------------------------------
(* Results of a call *)

None == [kind |-> "None", val |-> <<>>]
Some(v) == [kind |-> "Some", val |-> v]
Unit == [kind |-> "Unit", val |-> <<>>]
Bool(b) == [kind |-> IF b THEN "true" ELSE "false", val |-> <<>>]
Panic(what) == [kind |-> what, val |-> <<>>]

----------------------------------------------------------------------------
(* u64 <-> [u8; 8] *)

RECURSIVE be_digits(_, _)
be_digits(n, k) ==
    IF k = 0 THEN <<>>
    ELSE Append(be_digits(n \div ByteBase, k - 1), n % ByteBase)

to_be_bytes(n) == be_digits(n, KeyLen)

RECURSIVE from_be_bytes(_)
from_be_bytes(b) ==
    IF b = <<>> THEN 0
    ELSE from_be_bytes(SubSeq(b, 1, Len(b) - 1)) * ByteBase + b[Len(b)]

----------------------------------------------------------------------------
(* The hash map *)

EmptyMap == [k \in {} |-> <<>>]

MapInsert(h, k, v) == [x \in DOMAIN h \cup {k} |-> IF x = k THEN v ELSE h[x]]

MapRemove(h, k) == [x \in DOMAIN h \ {k} |-> h[x]]

\* the orders in which keys() may yield the keys of h
KeyOrders(h) ==
    LET n == Cardinality(DOMAIN h) IN
    {s \in [1 .. n -> DOMAIN h] : \A i, j \in 1 .. n : i # j => s[i] # s[j]}

----------------------------------------------------------------------------
(* get_highest_priority *)

\* the scan with the comparison turned around
RECURSIVE scan_keys_min(_, _)
scan_keys_min(keys, high) ==
    IF keys = <<>> THEN high
    ELSE IF Len(Head(keys)) # KeyLen THEN -1
    ELSE LET current_priority == from_be_bytes(Head(keys)) IN
         scan_keys_min(Tail(keys),
                       IF current_priority < high THEN current_priority ELSE high)

\* the scan without the comparison: the key seen last wins
RECURSIVE scan_keys_last(_, _)
scan_keys_last(keys, high) ==
    IF keys = <<>> THEN high
    ELSE IF Len(Head(keys)) # KeyLen THEN -1
    ELSE scan_keys_last(Tail(keys), from_be_bytes(Head(keys)))

\* the scan that passes over a key that is not 8 bytes
RECURSIVE scan_keys_skip(_, _)
scan_keys_skip(keys, high) ==
    IF keys = <<>> THEN high
    ELSE IF Len(Head(keys)) # KeyLen THEN scan_keys_skip(Tail(keys), high)
    ELSE LET current_priority == from_be_bytes(Head(keys)) IN
         scan_keys_skip(Tail(keys),
                        IF current_priority > high THEN current_priority ELSE high)

\* the loop over the keys: high is high_priority_num; -1 stands for the panic
\* of expect("key was not encoded as [u8; 8]")
RECURSIVE scan_keys(_, _)
scan_keys(keys, high) ==
    IF keys = <<>> THEN high
    ELSE IF Len(Head(keys)) # KeyLen THEN -1
    ELSE LET current_priority == from_be_bytes(Head(keys)) IN
         scan_keys(Tail(keys),
                   IF current_priority > high THEN current_priority ELSE high)

\* the scan that returns the first key keys() yields
get_highest_priority_first(h, order) ==
    IF \E i \in 1 .. Len(order) : Len(order[i]) # KeyLen
    THEN [ok |-> FALSE, key |-> <<>>]
    ELSE IF order = <<>> THEN [ok |-> TRUE, key |-> to_be_bytes(0)]
    ELSE [ok |-> TRUE, key |-> to_be_bytes(from_be_bytes(order[1]))]

\* the highest-priority scan with the keys taken in the given order:
\* [ok |-> FALSE] when a key is not 8 bytes, else the encoded maximum
get_highest_priority(h, order) ==
    LET high_priority_num == scan_keys(order, 0) IN
    IF high_priority_num < 0
    THEN [ok |-> FALSE, key |-> <<>>]
    ELSE [ok |-> TRUE, key |-> to_be_bytes(high_priority_num)]

----------------------------------------------------------------------------
(* The operations as functions of the map: the result and the map left *)

\* the length put behind the payload: element.push(element_len)
encode_record_behind(element) == element \o <<Len(element)>>

\* element.insert(0, element_len): the record stored for a payload
encode_record(element) == <<Len(element)>> \o element

\* insert that puts the new record in front of the bucket
insert_result_front(h, element, priority) ==
    LET byte_key == to_be_bytes(priority) IN
    IF Len(element) > U8Max
    THEN [ret |-> Panic("PayloadTooLarge"), hmap |-> h]
    ELSE IF byte_key \notin DOMAIN h
    THEN [ret |-> Unit, hmap |-> MapInsert(h, byte_key, encode_record(element))]
    ELSE [ret |-> Unit,
          hmap |-> [h EXCEPT ![byte_key] = encode_record(element) \o @]]

\* insert that rejects a payload of 255 bytes already
insert_result_strict(h, element, priority) ==
    LET byte_key == to_be_bytes(priority) IN
    IF Len(element) >= U8Max
    THEN [ret |-> Panic("PayloadTooLarge"), hmap |-> h]
    ELSE IF byte_key \notin DOMAIN h
    THEN [ret |-> Unit, hmap |-> MapInsert(h, byte_key, encode_record(element))]
    ELSE [ret |-> Unit,
          hmap |-> [h EXCEPT ![byte_key] = @ \o encode_record(element)]]

\* insert that takes an empty payload for nothing to store
insert_result_skip_empty(h, element, priority) ==
    LET byte_key == to_be_bytes(priority) IN
    IF Len(element) > U8Max
    THEN [ret |-> Panic("PayloadTooLarge"), hmap |-> h]
    ELSE IF element = <<>> THEN [ret |-> Unit, hmap |-> h]
    ELSE IF byte_key \notin DOMAIN h
    THEN [ret |-> Unit, hmap |-> MapInsert(h, byte_key, encode_record(element))]
    ELSE [ret |-> Unit,
          hmap |-> [h EXCEPT ![byte_key] = @ \o encode_record(element)]]

\* insert that always calls HashMap::insert, replacing the bucket of the key
insert_result_overwrite(h, element, priority) ==
    LET byte_key == to_be_bytes(priority) IN
    IF Len(element) > U8Max
    THEN [ret |-> Panic("PayloadTooLarge"), hmap |-> h]
    ELSE [ret |-> Unit, hmap |-> MapInsert(h, byte_key, encode_record(element))]

insert_result(h, element, priority) ==
    LET byte_key == to_be_bytes(priority) IN
    IF Len(element) > U8Max
    THEN [ret |-> Panic("PayloadTooLarge"), hmap |-> h]
    ELSE IF byte_key \notin DOMAIN h
    THEN [ret |-> Unit, hmap |-> MapInsert(h, byte_key, encode_record(element))]
    ELSE [ret |-> Unit,
          hmap |-> [h EXCEPT ![byte_key] = @ \o encode_record(element)]]

\* peek whose slice stops one byte early: element[1..element_len]
peek_result_short(h, order) ==
    LET top == get_highest_priority(h, order) IN
    IF ~top.ok THEN Panic("MalformedKey")
    ELSE IF top.key \notin DOMAIN h THEN None
    ELSE LET element == h[top.key] IN
         IF Len(element) = 0 THEN Panic("MalformedRecord")
         ELSE LET element_len == element[1] IN
              IF element_len + 1 > Len(element) THEN Panic("MalformedRecord")
              ELSE Some(SubSeq(element, 2, element_len))

peek_result(h, order) ==
    LET top == get_highest_priority(h, order) IN
    IF ~top.ok THEN Panic("MalformedKey")
    ELSE IF top.key \notin DOMAIN h THEN None
    ELSE LET element == h[top.key] IN
         IF Len(element) = 0 THEN Panic("MalformedRecord")
         ELSE LET element_len == element[1] IN
              IF element_len + 1 > Len(element) THEN Panic("MalformedRecord")
              ELSE Some(SubSeq(element, 2, element_len + 1))

\* pop that leaves the key in the map when its bucket becomes empty
pop_result_keep(h, order) ==
    LET top == get_highest_priority(h, order) IN
    IF ~top.ok THEN [ret |-> Panic("MalformedKey"), hmap |-> h]
    ELSE IF top.key \notin DOMAIN h THEN [ret |-> None, hmap |-> h]
    ELSE LET value == h[top.key] IN
         IF Len(value) = 0 THEN [ret |-> Panic("MalformedRecord"), hmap |-> h]
         ELSE LET element_len == value[1] IN
              IF element_len + 1 > Len(value)
              THEN [ret |-> Panic("MalformedRecord"), hmap |-> h]
              ELSE [ret |-> Some(SubSeq(value, 2, element_len + 1)),
                    hmap |-> [h EXCEPT ![top.key] =
                                 SubSeq(value, element_len + 2, Len(value))]]

\* pop that drains one byte too few: value.drain(..element_len)
pop_result_short(h, order) ==
    LET top == get_highest_priority(h, order) IN
    IF ~top.ok THEN [ret |-> Panic("MalformedKey"), hmap |-> h]
    ELSE IF top.key \notin DOMAIN h THEN [ret |-> None, hmap |-> h]
    ELSE LET value == h[top.key] IN
         IF Len(value) = 0 THEN [ret |-> Panic("MalformedRecord"), hmap |-> h]
         ELSE LET element_len == value[1] IN
              IF element_len = 0 \/ element_len > Len(value)
              THEN [ret |-> Panic("MalformedRecord"), hmap |-> h]
              ELSE LET element == SubSeq(value, 2, element_len)
                       rest == SubSeq(value, element_len + 1, Len(value))
                   IN [ret |-> Some(element),
                       hmap |-> IF rest = <<>>
                                THEN MapRemove(h, top.key)
                                ELSE [h EXCEPT ![top.key] = rest]]

\* pop that takes the scan's initial maximum, 0, for "no key found"
pop_result_sentinel(h, order) ==
    LET top == get_highest_priority(h, order) IN
    IF ~top.ok THEN [ret |-> Panic("MalformedKey"), hmap |-> h]
    ELSE IF top.key \notin DOMAIN h \/ top.key = to_be_bytes(0)
    THEN [ret |-> None, hmap |-> h]
    ELSE LET value == h[top.key] IN
         IF Len(value) = 0 THEN [ret |-> Panic("MalformedRecord"), hmap |-> h]
         ELSE LET element_len == value[1] IN
              IF element_len + 1 > Len(value)
              THEN [ret |-> Panic("MalformedRecord"), hmap |-> h]
              ELSE LET element == SubSeq(value, 2, element_len + 1)
                       rest == SubSeq(value, element_len + 2, Len(value))
                   IN [ret |-> Some(element),
                       hmap |-> IF rest = <<>>
                                THEN MapRemove(h, top.key)
                                ELSE [h EXCEPT ![top.key] = rest]]

\* pop that takes the bytes there are when the record is cut short
pop_result_clamp(h, order) ==
    LET top == get_highest_priority(h, order) IN
    IF ~top.ok THEN [ret |-> Panic("MalformedKey"), hmap |-> h]
    ELSE IF top.key \notin DOMAIN h THEN [ret |-> None, hmap |-> h]
    ELSE LET value == h[top.key] IN
         IF Len(value) = 0 THEN [ret |-> Panic("MalformedRecord"), hmap |-> h]
         ELSE LET element_len == IF value[1] + 1 > Len(value)
                                 THEN Len(value) - 1 ELSE value[1]
                  element == SubSeq(value, 2, element_len + 1)
                  rest == SubSeq(value, element_len + 2, Len(value))
              IN [ret |-> Some(element),
                  hmap |-> IF rest = <<>>
                           THEN MapRemove(h, top.key)
                           ELSE [h EXCEPT ![top.key] = rest]]

\* pop that removes the key, with the rest of its bucket, every time
pop_result_remove_bucket(h, order) ==
    LET top == get_highest_priority(h, order) IN
    IF ~top.ok THEN [ret |-> Panic("MalformedKey"), hmap |-> h]
    ELSE IF top.key \notin DOMAIN h THEN [ret |-> None, hmap |-> h]
    ELSE LET value == h[top.key] IN
         IF Len(value) = 0 THEN [ret |-> Panic("MalformedRecord"), hmap |-> h]
         ELSE LET element_len == value[1] IN
              IF element_len + 1 > Len(value)
              THEN [ret |-> Panic("MalformedRecord"), hmap |-> h]
              ELSE [ret |-> Some(SubSeq(value, 2, element_len + 1)),
                    hmap |-> MapRemove(h, top.key)]

\* pop that returns the front record and leaves it in the bucket
pop_result_leave(h, order) ==
    LET top == get_highest_priority(h, order) IN
    IF ~top.ok THEN [ret |-> Panic("MalformedKey"), hmap |-> h]
    ELSE IF top.key \notin DOMAIN h THEN [ret |-> None, hmap |-> h]
    ELSE LET value == h[top.key] IN
         IF Len(value) = 0 THEN [ret |-> Panic("MalformedRecord"), hmap |-> h]
         ELSE LET element_len == value[1] IN
              IF element_len + 1 > Len(value)
              THEN [ret |-> Panic("MalformedRecord"), hmap |-> h]
              ELSE [ret |-> Some(SubSeq(value, 2, element_len + 1)), hmap |-> h]

\* pop that unwraps the bucket of the scanned key instead of matching on it
pop_result_unwrap(h, order) ==
    LET top == get_highest_priority(h, order) IN
    IF ~top.ok THEN [ret |-> Panic("MalformedKey"), hmap |-> h]
    ELSE IF top.key \notin DOMAIN h
    THEN [ret |-> Panic("UnwrapOnNone"), hmap |-> h]
    ELSE LET value == h[top.key] IN
         IF Len(value) = 0 THEN [ret |-> Panic("MalformedRecord"), hmap |-> h]
         ELSE LET element_len == value[1] IN
              IF element_len + 1 > Len(value)
              THEN [ret |-> Panic("MalformedRecord"), hmap |-> h]
              ELSE LET element == SubSeq(value, 2, element_len + 1)
                       rest == SubSeq(value, element_len + 2, Len(value))
                   IN [ret |-> Some(element),
                       hmap |-> IF rest = <<>>
                                THEN MapRemove(h, top.key)
                                ELSE [h EXCEPT ![top.key] = rest]]

pop_result(h, order) ==
    LET top == get_highest_priority(h, order) IN
    IF ~top.ok THEN [ret |-> Panic("MalformedKey"), hmap |-> h]
    ELSE IF top.key \notin DOMAIN h THEN [ret |-> None, hmap |-> h]
    ELSE LET value == h[top.key] IN
         IF Len(value) = 0 THEN [ret |-> Panic("MalformedRecord"), hmap |-> h]
         ELSE LET element_len == value[1] IN
              IF element_len + 1 > Len(value)
              THEN [ret |-> Panic("MalformedRecord"), hmap |-> h]
              ELSE LET element == SubSeq(value, 2, element_len + 1)
                       rest == SubSeq(value, element_len + 2, Len(value))
                   IN [ret |-> Some(element),
                       hmap |-> IF rest = <<>>
                                THEN MapRemove(h, top.key)
                                ELSE [h EXCEPT ![top.key] = rest]]

\* is_empty with the test negated
is_empty_result_negated(h) == Bool(DOMAIN h # {})

is_empty_result(h) == Bool(DOMAIN h = {})

----------------------------------------------------------------------------------------------------------------------------------------------------
(* The elements a run has pending *)

Element(priority, element) == [priority |-> priority, element |-> element]

\* positions in q of the elements of the greatest priority
TopPositions(q) ==
    {i \in 1 .. Len(q) : \A j \in 1 .. Len(q) : q[j].priority <= q[i].priority}

\* position in q of the element the trait's pop is to return: the earliest
\* inserted among those of the greatest priority
NextOut(q) == CHOOSE i \in TopPositions(q) : \A j \in TopPositions(q) : i <= j

RemoveAt(q, i) == SubSeq(q, 1, i - 1) \o SubSeq(q, i + 1, Len(q))

----------------------------------------------------------------------------
(* The state machine *)

new == EmptyMap

Init ==
    /\ hmap = new
    /\ op = [name |-> "new", len |-> 0]
    /\ ret = Unit
    /\ pending = <<>>
    /\ count = [inserts |-> 0, outs |-> 0,
                accepted |-> EmptyBag, returned |-> EmptyBag]
    /\ shape = "filling"
    /\ inserted = <<>>
    /\ popped = <<>>

\* the call insert(element, priority)
insert_call(element, priority) ==
    LET r == insert_result(hmap, element, priority) IN
    /\ r.ret = Unit => count.inserts < MaxInserts
    /\ hmap' = r.hmap
    /\ op' = [name |-> "insert", len |-> Len(element)]
    /\ ret' = r.ret
    /\ IF r.ret = Unit
       THEN /\ pending' = Append(pending, Element(priority, element))
            /\ count' = [count EXCEPT !.inserts = @ + 1,
                                      !.accepted = @ (+) SetToBag({element})]
            /\ IF shape = "filling"
               THEN /\ inserted' = Append(inserted, Element(priority, element))
                    /\ UNCHANGED <<shape, popped>>
               ELSE /\ shape' = "mixed"
                    /\ inserted' = <<>>
                    /\ popped' = <<>>
       ELSE UNCHANGED <<pending, count, shape, inserted, popped>>

insert ==
    \E element \in Payloads \cup LongPayloads, priority \in Priorities :
        insert_call(element, priority)

\* peek written as a pop: it takes the front record out of the map
peek_draining ==
    \E order \in KeyOrders(hmap) :
        /\ hmap' = pop_result(hmap, order).hmap
        /\ op' = [name |-> "peek", len |-> 0]
        /\ ret' = pop_result(hmap, order).ret
        /\ UNCHANGED <<pending, count, shape, inserted, popped>>

peek ==
    \E order \in KeyOrders(hmap) :
        /\ op' = [name |-> "peek", len |-> 0]
        /\ ret' = peek_result(hmap, order)
        /\ UNCHANGED <<hmap, pending, count, shape, inserted, popped>>

pop ==
    \E order \in KeyOrders(hmap) :
        LET r == pop_result(hmap, order) IN
        /\ hmap' = r.hmap
        /\ op' = [name |-> "pop", len |-> 0]
        /\ ret' = r.ret
        /\ pending' = IF pending = <<>> THEN pending
                      ELSE RemoveAt(pending, NextOut(pending))
        /\ count' = IF r.ret.kind = "Some"
                    THEN [count EXCEPT !.outs = @ + 1,
                                       !.returned = @ (+) SetToBag({r.ret.val})]
                    ELSE count
        /\ IF shape = "mixed"
           THEN UNCHANGED <<shape, inserted, popped>>
           ELSE /\ shape' = "draining"
                /\ popped' = IF Len(popped) > Len(inserted) THEN popped
                             ELSE Append(popped, r.ret)
                /\ UNCHANGED inserted

is_empty ==
    /\ op' = [name |-> "is_empty", len |-> 0]
    /\ ret' = is_empty_result(hmap)
    /\ UNCHANGED <<hmap, pending, count, shape, inserted, popped>>

Next == insert \/ peek \/ pop \/ is_empty

Spec == Init /\ [][Next]_vars

----------------------------------------------------------------------------
(* A queue built around a map that was filled by hand, PriorityQueueImpl(hmap), *)
(* as the tests key_not_8bytes and manually_init_elements do                    *)

\* number of keys of a map filled by hand
MaxManualKeys == 3

\* keys of 1 and of 10 bytes, and the 8-byte keys of 0, 2 and 256
ManualKeys ==
    { <<5>>,
      <<1, 1, 1, 1, 1, 1, 1, 1, 1, 1>>,
      <<0, 0, 0, 0, 0, 0, 0, 0>>,
      <<0, 0, 0, 0, 0, 0, 0, 2>>,
      <<0, 0, 0, 0, 0, 0, 1, 0>> }

\* buckets: empty; cut short (a length byte of 10 with no or two bytes after
\* it); whole records (one empty payload; two payloads); and a whole record
\* followed by one cut short
ManualBuckets ==
    { <<>>, <<10>>, <<10, 0, 0>>, <<0>>, <<1, 7, 0>>, <<1, 7, 3>> }

ManualMaps ==
    UNION { [keys -> ManualBuckets] :
              keys \in {ks \in SUBSET ManualKeys : Cardinality(ks) <= MaxManualKeys} }

InitManual ==
    /\ hmap \in ManualMaps
    /\ op = [name |-> "new", len |-> 0]
    /\ ret = Unit
    /\ pending = <<>>
    /\ count = [inserts |-> 0, outs |-> 0,
                accepted |-> EmptyBag, returned |-> EmptyBag]
    /\ shape = "filling"
    /\ inserted = <<>>
    /\ popped = <<>>

NextManual == peek \/ pop \/ is_empty

SpecManual == InitManual /\ [][NextManual]_vars

----------------------------------------------------------------------------
(* Records of every length: into a new queue goes a payload of any length  *)
(* from 0 to one more than a length byte can hold, then payloads of the    *)
(* two sampled lengths, all at one priority, so that they share a bucket.  *)

insert_any_length ==
    /\ count.inserts = 0
    /\ \E n \in 0 .. (U8Max + 1) : insert_call(Ramp(n), LargePriority)

insert_behind ==
    /\ count.inserts > 0
    /\ \E element \in Payloads : insert_call(element, LargePriority)

NextRecord == insert_any_length \/ insert_behind \/ peek \/ pop

SpecRecord == Init /\ [][NextRecord]_vars

----------------------------------------------------------------------------
(* Reading the map back *)

\* the payloads of a bucket, front first (the bucket is read record by record
\* the way pop drains it; a record cut short ends the reading)
RECURSIVE records(_)
records(b) ==
    IF b = <<>> \/ b[1] + 1 > Len(b) THEN <<>>
    ELSE <<SubSeq(b, 2, b[1] + 1)>> \o records(SubSeq(b, b[1] + 2, Len(b)))

\* the bucket is a concatenation of whole length-prefixed records
RECURSIVE WholeRecords(_)
WholeRecords(b) ==
    \/ b = <<>>
    \/ /\ b[1] + 1 <= Len(b)
       /\ WholeRecords(SubSeq(b, b[1] + 2, Len(b)))

\* the payloads of the elements of q that have priority p, in order
RECURSIVE Tier(_, _)
Tier(q, p) ==
    IF q = <<>> THEN <<>>
    ELSE (IF Head(q).priority = p THEN <<Head(q).element>> ELSE <<>>)
         \o Tier(Tail(q), p)

PrioritiesOf(q) == {q[i].priority : i \in 1 .. Len(q)}

\* the map h holds exactly the elements of q: one key per priority in q, its
\* bucket the records of that priority's elements in insertion order
Represents(h, q) ==
    /\ DOMAIN h = {to_be_bytes(p) : p \in PrioritiesOf(q)}
    /\ \A p \in PrioritiesOf(q) : records(h[to_be_bytes(p)]) = Tier(q, p)

\* number of bytes stored in the buckets of h
RECURSIVE TotalBytes(_)
TotalBytes(h) ==
    IF DOMAIN h = {} THEN 0
    ELSE LET k == CHOOSE x \in DOMAIN h : TRUE IN
         Len(h[k]) + TotalBytes(MapRemove(h, k))

DistinctPriorities(q) ==
    \A i, j \in 1 .. Len(q) : i # j => q[i].priority # q[j].priority

SamePriority(q) ==
    \A i, j \in 1 .. Len(q) : q[i].priority = q[j].priority

\* position in q of the element with the r-th greatest priority
ByRank(q, r) ==
    CHOOSE i \in 1 .. Len(q) :
        Cardinality({j \in 1 .. Len(q) : q[j].priority > q[i].priority}) = r - 1

----------------------------------------------------------------------------
(* C1: after inserts with pairwise distinct priorities into a new queue,   *)
(* the k-th pop returns the payload inserted with the k-th greatest        *)
(* priority, one pop per insert, and the pop after the last returns None.  *)
C1_DescendingOrder ==
    (shape # "mixed" /\ DistinctPriorities(inserted)) =>
        \A k \in 1 .. Len(popped) :
            popped[k] = IF k <= Len(inserted)
                        THEN Some(inserted[ByRank(inserted, k)].element)
                        ELSE None

C1_Witness ==
    /\ shape = "draining"
    /\ Len(inserted) = 3
    /\ DistinctPriorities(inserted)
    /\ inserted[1].priority < inserted[2].priority
    /\ inserted[1].element # inserted[2].element
    /\ Len(popped) = 4

(* C2: after inserts that all use one priority, the k-th pop returns the   *)
(* k-th inserted payload, whatever the payloads' lengths, and the queue is *)
(* empty once as many pops as inserts were made.                           *)
C2_FifoWithinTier ==
    (shape # "mixed" /\ SamePriority(inserted)) =>
        /\ \A k \in 1 .. Len(popped) :
               popped[k] = IF k <= Len(inserted)
                           THEN Some(inserted[k].element)
                           ELSE None
        /\ Len(popped) >= Len(inserted) => DOMAIN hmap = {}

C2_Witness ==
    /\ shape = "draining"
    /\ Len(inserted) = 3
    /\ SamePriority(inserted)
    /\ Len(inserted[1].element) # Len(inserted[2].element)
    /\ Len(popped) = 3
    /\ DOMAIN hmap = {}

(* C3: in any interleaving of inserts and pops, a pop on a non-empty queue *)
(* returns the payload of a pending element i whose priority is the        *)
(* greatest pending and which was inserted before every other pending      *)
(* element of that priority, and the map then holds the pending elements   *)
(* without i.                                                              *)
C3_PopHighestEarliest ==
    [][(op'.name = "pop" /\ pending # <<>>) =>
        \E i \in 1 .. Len(pending) :
            /\ \A j \in 1 .. Len(pending) :
                   pending[j].priority <= pending[i].priority
            /\ \A j \in 1 .. (i - 1) :
                   pending[j].priority < pending[i].priority
            /\ ret' = Some(pending[i].element)
            /\ Represents(hmap', RemoveAt(pending, i))]_vars

C3_Witness ==
    /\ op.name = "pop"
    /\ ret.kind = "Some"
    /\ shape = "mixed"
    /\ count.outs = 2
    /\ Len(pending) = 1

(* C4: is_empty returns true exactly when as many pops returned a payload  *)
(* as inserts succeeded, false otherwise, and leaves the map as it was.    *)
C4_IsEmptyIffNothingPending ==
    [][op'.name = "is_empty" =>
        /\ ret' = Bool(count'.inserts = count'.outs)
        /\ hmap' = hmap]_vars

C4_Witness ==
    /\ op.name = "is_empty"
    /\ ret.kind = "true"
    /\ count.inserts = 3
    /\ count.outs = 3

(* C5: peek leaves the map, with every bucket, as it was, so that the pops *)
(* that follow start from the same map; and a peek that follows a peek     *)
(* returns what the first returned.                                        *)
C5_PeekChangesNothing ==
    [][op'.name = "peek" =>
        /\ hmap' = hmap
        /\ pending' = pending
        /\ op.name = "peek" => ret' = ret]_vars

C5_Witness ==
    /\ op.name = "peek"
    /\ ret.kind = "Some"
    /\ Cardinality(DOMAIN hmap) = 3

(* C6: what peek returned is what a pop made right after it returns: the   *)
(* same payload, or None for both.                                         *)
C6_PeekIsNextPop ==
    op.name = "peek" =>
        \A order \in KeyOrders(hmap) : pop_result(hmap, order).ret = ret

C6_Witness ==
    /\ op.name = "peek"
    /\ ret = Some(Ramp(U8Max))
    /\ Cardinality(DOMAIN hmap) = 2
    /\ Len(pending) = 3

(* C7: insert succeeds, storing the payload and its length byte, when the  *)
(* payload has at most 255 bytes; with 256 bytes or more it fails with     *)
(* PayloadTooLarge and the map stays as it was.                            *)
C7_InsertLengthBoundary ==
    [][op'.name = "insert" =>
        IF op'.len <= U8Max
        THEN /\ ret' = Unit
             /\ TotalBytes(hmap') = TotalBytes(hmap) + op'.len + 1
             /\ count'.inserts = count.inserts + 1
        ELSE /\ ret' = Panic("PayloadTooLarge")
             /\ hmap' = hmap
             /\ count' = count]_vars

C7_Witness ==
    /\ op.name = "insert"
    /\ op.len = U8Max + 1
    /\ ret = Panic("PayloadTooLarge")
    /\ Cardinality(DOMAIN hmap) = 2
    /\ \E k \in DOMAIN hmap : Len(hmap[k]) = U8Max + 1

(* C8: in every state reached from new by the four operations, every key   *)
(* is 8 bytes, every bucket is a concatenation of whole length-prefixed    *)
(* records, and no call has failed with MalformedKey or MalformedRecord.   *)
C8_OnlyPayloadTooLarge ==
    /\ \A k \in DOMAIN hmap : Len(k) = KeyLen /\ WholeRecords(hmap[k])
    /\ ret.kind \notin {"MalformedKey", "MalformedRecord"}
    /\ \A order \in KeyOrders(hmap) :
           /\ peek_result(hmap, order).kind \in {"Some", "None"}
           /\ pop_result(hmap, order).ret.kind \in {"Some", "None"}

C8_Witness ==
    /\ op.name = "pop"
    /\ ret.kind = "Some"
    /\ \E k \in DOMAIN hmap : Len(records(hmap[k])) = 2
    /\ Cardinality(DOMAIN hmap) = 1

(* C9: every key of the map has a non-empty bucket: a pop that takes the   *)
(* last record of a bucket removes the key as well.                        *)
C9_NoEmptyBucket ==
    \A k \in DOMAIN hmap : hmap[k] # <<>>

C9_Witness ==
    /\ op.name = "pop"
    /\ ret.kind = "Some"
    /\ shape = "draining"
    /\ DistinctPriorities(inserted)
    /\ Len(inserted) = 3
    /\ Len(popped) = 1
    /\ Cardinality(DOMAIN hmap) = 2

(* C10: priority 0 is a priority like the others.  peek and pop return     *)
(* None on an empty queue; when only priority-0 elements are pending they  *)
(* return the earliest of them; when an element of a higher priority is    *)
(* pending they return one of those and pop leaves the bucket of           *)
(* priority 0 as it was.                                                   *)
C10_PriorityZeroIsOrdinary ==
    [][op'.name \in {"peek", "pop"} =>
        LET zero == to_be_bytes(0) IN
        /\ pending = <<>> => ret' = None
        /\ (pending # <<>> /\ PrioritiesOf(pending) = {0}) =>
               ret' = Some(pending[1].element)
        /\ PrioritiesOf(pending) \ {0} # {} =>
               /\ \E i \in 1 .. Len(pending) :
                      /\ pending[i].priority > 0
                      /\ ret' = Some(pending[i].element)
               /\ zero \in DOMAIN hmap =>
                      zero \in DOMAIN hmap' /\ hmap'[zero] = hmap[zero]]_vars

C10_Witness ==
    /\ op.name = "pop"
    /\ ret.kind = "Some"
    /\ shape = "draining"
    /\ Len(inserted) = 3
    /\ PrioritiesOf(inserted) = {0}
    /\ Len(popped) = 3
    /\ pending = <<>>

(* C11: an empty payload is an element.  After k inserts of empty payloads *)
(* at one priority into a new queue the bucket holds k records; the first  *)
(* k pops, and every peek before the k-th pop, return the empty payload    *)
(* (not None); the pop after them returns None; and the queue is empty,    *)
(* for the map and for is_empty, exactly from the k-th pop on.             *)
C11_EmptyPayloadIsAnElement ==
    (/\ shape # "mixed"
     /\ inserted # <<>>
     /\ SamePriority(inserted)
     /\ \A i \in 1 .. Len(inserted) : inserted[i].element = <<>>) =>
        LET k == Len(inserted)
            drained == Len(popped) >= k
        IN /\ \A i \in 1 .. Len(popped) :
                  popped[i] = IF i <= k THEN Some(<<>>) ELSE None
           /\ (DOMAIN hmap = {}) <=> drained
           /\ \A key \in DOMAIN hmap :
                  Len(records(hmap[key])) = k - Len(popped)
           /\ op.name = "peek" => ret = IF drained THEN None ELSE Some(<<>>)
           /\ op.name = "is_empty" => ret = Bool(drained)

C11_Witness ==
    /\ op.name = "pop"
    /\ ret = None
    /\ shape = "draining"
    /\ Len(inserted) = 3
    /\ SamePriority(inserted)
    /\ \A i \in 1 .. Len(inserted) : inserted[i].element = <<>>
    /\ popped = <<Some(<<>>), Some(<<>>), Some(<<>>), None>>

(* C12: on a queue with nothing pending (new, or emptied by pops) peek and *)
(* pop return None and is_empty returns true, none of them panics, and the *)
(* map is empty afterwards.                                                *)
C12_EmptyQueue ==
    [][(pending = <<>> /\ op'.name \in {"peek", "pop", "is_empty"}) =>
        /\ ret' = IF op'.name = "is_empty" THEN Bool(TRUE) ELSE None
        /\ hmap' = EmptyMap]_vars

C12_Witness ==
    /\ op.name = "pop"
    /\ ret = None
    /\ count.inserts = 3
    /\ count.outs = 3
    /\ hmap = EmptyMap

\* a and b are byte sequences of one length, and a is at most b in
\* lexicographic order
LexLeq(a, b) ==
    \/ a = b
    \/ \E i \in 1 .. Len(a) :
           /\ a[i] < b[i]
           /\ \A j \in 1 .. (i - 1) : a[j] = b[j]

AllKeysWhole(h) == \A k \in DOMAIN h : Len(k) = KeyLen

\* the greatest key of a non-empty map of 8-byte keys
GreatestKey(h) == CHOOSE k \in DOMAIN h : \A j \in DOMAIN h : LexLeq(j, k)

(* C13: when the map has a key that is not 8 bytes long, whatever its      *)
(* other keys, peek and pop panic with the malformed-key message and the   *)
(* map is left as it was.                                                  *)
C13_MalformedKeyPanics ==
    [][(op'.name \in {"peek", "pop"} /\ ~AllKeysWhole(hmap)) =>
        /\ ret' = Panic("MalformedKey")
        /\ hmap' = hmap]_vars

C13_Witness ==
    /\ op.name = "pop"
    /\ ret = Panic("MalformedKey")
    /\ Cardinality(DOMAIN hmap) = 3
    /\ <<5>> \in DOMAIN hmap
    /\ \E k \in DOMAIN hmap : Len(k) = KeyLen /\ hmap[k] = <<1, 7, 0>>

(* C14: when all keys are 8 bytes and the bucket of the greatest key has   *)
(* fewer than 1 + n bytes, n being its first byte, peek and pop panic on   *)
(* the record and the map is left as it was.                               *)
C14_MalformedRecordPanics ==
    [][(/\ op'.name \in {"peek", "pop"}
        /\ DOMAIN hmap # {}
        /\ AllKeysWhole(hmap)
        /\ LET bucket == hmap[GreatestKey(hmap)] IN
           bucket # <<>> /\ Len(bucket) < 1 + bucket[1]) =>
        /\ ret' = Panic("MalformedRecord")
        /\ hmap' = hmap]_vars

C14_Witness ==
    /\ op.name = "peek"
    /\ ret = Panic("MalformedRecord")
    /\ Cardinality(DOMAIN hmap) = 2
    /\ AllKeysWhole(hmap)
    /\ hmap[GreatestKey(hmap)] = <<10, 0, 0>>
    /\ \E k \in DOMAIN hmap : hmap[k] = <<1, 7, 0>>

\* number of records stored in the buckets of h
RECURSIVE RecordCount(_)
RecordCount(h) ==
    IF DOMAIN h = {} THEN 0
    ELSE LET k == CHOOSE x \in DOMAIN h : TRUE IN
         Len(records(h[k])) + RecordCount(MapRemove(h, k))

(* C15: an insert that succeeds changes the bucket of the priority's key   *)
(* and nothing else: an absent key gets the one record of the element, a   *)
(* present key keeps its bucket with the record added at the end, every    *)
(* other key keeps its bucket, and the map holds one record more.          *)
C15_InsertChangesOneBucket ==
    [][(op'.name = "insert" /\ ret' = Unit) =>
        LET new_element == pending'[Len(pending')]
            key == to_be_bytes(new_element.priority)
            record == <<Len(new_element.element)>> \o new_element.element
        IN /\ DOMAIN hmap' = DOMAIN hmap \cup {key}
           /\ hmap'[key] = IF key \in DOMAIN hmap THEN hmap[key] \o record
                           ELSE record
           /\ \A k \in DOMAIN hmap \ {key} : hmap'[k] = hmap[k]
           /\ RecordCount(hmap') = RecordCount(hmap) + 1]_vars

C15_Witness ==
    /\ op.name = "insert"
    /\ ret = Unit
    /\ count.inserts = 3
    /\ Cardinality(DOMAIN hmap) = 2
    /\ \E k \in DOMAIN hmap : records(hmap[k]) = <<Ramp(U8Max), <<>>>>

(* C16: a pop on a non-empty queue changes the bucket of the greatest key  *)
(* and nothing else: it returns the payload of the front record, leaves    *)
(* the bytes after that record as the bucket (or removes the key when      *)
(* there are none), every other key keeps its bucket, and the map holds    *)
(* one record less.                                                        *)
C16_PopChangesOneBucket ==
    [][(op'.name = "pop" /\ DOMAIN hmap # {}) =>
        LET key == GreatestKey(hmap)
            bucket == hmap[key]
            n == bucket[1]
            rest == SubSeq(bucket, n + 2, Len(bucket))
        IN /\ ret' = Some(SubSeq(bucket, 2, n + 1))
           /\ DOMAIN hmap' = IF rest = <<>> THEN DOMAIN hmap \ {key}
                             ELSE DOMAIN hmap
           /\ rest # <<>> => hmap'[key] = rest
           /\ \A k \in DOMAIN hmap \ {key} : hmap'[k] = hmap[k]
           /\ RecordCount(hmap') = RecordCount(hmap) - 1]_vars

C16_Witness ==
    /\ op.name = "pop"
    /\ ret = Some(<<>>)
    /\ shape = "draining"
    /\ Len(inserted) = 3
    /\ Len(popped) = 1
    /\ DOMAIN hmap = {to_be_bytes(0), to_be_bytes(LargePriority)}
    /\ hmap[to_be_bytes(LargePriority)] = <<U8Max>> \o Ramp(U8Max)

(* C17: on a map whose keys are all 8 bytes the highest-priority scan      *)
(* returns, in every order of the keys, the greatest key of the map, which *)
(* is one of its keys, and eight zero bytes when the map is empty.         *)
C17_ScanReturnsGreatestKey ==
    AllKeysWhole(hmap) =>
        \A order \in KeyOrders(hmap) :
            LET top == get_highest_priority(hmap, order) IN
            /\ top.ok
            /\ IF DOMAIN hmap = {}
               THEN top.key = <<0, 0, 0, 0, 0, 0, 0, 0>>
               ELSE /\ top.key \in DOMAIN hmap
                    /\ \A k \in DOMAIN hmap : LexLeq(k, top.key)

C17_Witness ==
    /\ op.name = "peek"
    /\ ret = Some(<<7>>)
    /\ Cardinality(DOMAIN hmap) = 3
    /\ AllKeysWhole(hmap)
    /\ hmap[<<0, 0, 0, 0, 0, 0, 0, 2>>] = <<0>>

(* C18: what peek and pop return, and the map pop leaves, are the same for *)
(* every order in which the map yields its keys.                           *)
C18_KeyOrderIndependent ==
    \A first, second \in KeyOrders(hmap) :
        /\ peek_result(hmap, first) = peek_result(hmap, second)
        /\ pop_result(hmap, first) = pop_result(hmap, second)

C18_Witness ==
    /\ op.name = "pop"
    /\ ret = Some(Ramp(U8Max))
    /\ count.outs = 1
    /\ DOMAIN hmap = {to_be_bytes(0), to_be_bytes(1)}

\* the bucket that holds the elements of q, in order, as records
RECURSIVE Encoded(_)
Encoded(q) ==
    IF q = <<>> THEN <<>>
    ELSE <<Len(Head(q).element)>> \o Head(q).element \o Encoded(Tail(q))

(* C19: records round-trip.  With elements of one priority pending, the    *)
(* bucket insert builds is the concatenation of their records; pop decodes *)
(* from it the payload inserted first, whatever its length up to 255,      *)
(* leaves the concatenation of the other records (nothing, with the key    *)
(* removed, when there is one record), and the payload it returns encodes  *)
(* again to the record it was decoded from.                                *)
C19_RecordRoundTrip ==
    [][LET key == to_be_bytes(LargePriority) IN
       /\ (op'.name = "insert" /\ ret' = Unit) =>
              hmap' = MapInsert(EmptyMap, key, Encoded(pending'))
       /\ (op'.name = "pop" /\ pending # <<>>) =>
              /\ ret' = Some(pending[1].element)
              /\ hmap' = IF Len(pending) = 1 THEN EmptyMap
                         ELSE MapInsert(EmptyMap, key, Encoded(Tail(pending)))
              /\ <<Len(ret'.val)>> \o ret'.val
                     = SubSeq(hmap[key], 1, Len(ret'.val) + 1)]_vars

C19_Witness ==
    /\ op.name = "pop"
    /\ ret = Some(Ramp(100))
    /\ pending = <<Element(LargePriority, Ramp(U8Max)),
                   Element(LargePriority, <<>>)>>

\* the bag of the payloads in a sequence of payloads
RECURSIVE BagOfSeq(_)
BagOfSeq(payloads) ==
    IF payloads = <<>> THEN EmptyBag
    ELSE SetToBag({Head(payloads)}) (+) BagOfSeq(Tail(payloads))

\* the bag of the payloads stored in the buckets of h
RECURSIVE StoredBag(_)
StoredBag(h) ==
    IF DOMAIN h = {} THEN EmptyBag
    ELSE LET k == CHOOSE x \in DOMAIN h : TRUE IN
         BagOfSeq(records(h[k])) (+) StoredBag(MapRemove(h, k))

\* what pop after pop returns and leaves from the map h on, up to the first
\* pop that gives no payload, or up to `calls` pops
RECURSIVE Drain(_, _)
Drain(h, calls) ==
    IF calls = 0 THEN <<>>
    ELSE LET r == pop_result(h, CHOOSE order \in KeyOrders(h) : TRUE) IN
         IF r.ret.kind = "Some" THEN <<r>> \o Drain(r.hmap, calls - 1)
         ELSE <<r>>

(* C20: no element is lost or duplicated.  After any inserts and pops the  *)
(* payloads the pops returned together with the payloads stored are, as a  *)
(* bag, the payloads the inserts took; and with n elements pending (n      *)
(* inserts not matched by a returning pop), pop after pop returns a        *)
(* payload n times, then None, and the map is empty.                       *)
C20_NothingLostOrDuplicated ==
    /\ count.returned (+) StoredBag(hmap) = count.accepted
    /\ LET n == count.inserts - count.outs
           pops == Drain(hmap, n + 1)
       IN /\ Len(pops) = n + 1
          /\ \A i \in 1 .. n : pops[i].ret.kind = "Some"
          /\ pops[n + 1] = [ret |-> None, hmap |-> EmptyMap]

C20_Witness ==
    /\ op.name = "pop"
    /\ shape = "mixed"
    /\ count.inserts = 3
    /\ count.returned = SetToBag({<<>>, Ramp(U8Max)})
    /\ StoredBag(hmap) = SetToBag({Ramp(U8Max)})

====
